---- MODULE Spec2Model ----
(***************************************************************************)
(* Configuration layering of the JSON-RPC indexer                          *)
(* (crates/sui-indexer-alt-jsonrpc/src/config.rs).                         *)
(*                                                                         *)
(* The state is the start-up of the host: the root overlay RpcConfig as    *)
(* loaded, the baselines each subsystem supplies, the record returned by   *)
(* the protocol catalog, the resolved records produced so far and the      *)
(* warnings written to the diagnostic channel.  Each `finish` method is a  *)
(* pure operator returning its result together with the warnings it        *)
(* emits; one action per method applies it to the state.                   *)
(***************************************************************************)
EXTENDS Integers, Sequences, FiniteSets

VARIABLES
    doc,          \* the RpcConfig as constructed (parsed document or example())
    cfg,          \* the RpcConfig value the host currently holds
    base,         \* baseline resolved records passed to the child finishers
    protocol,     \* ProtocolConfig::get_for_max_version_UNSAFE()
    origin,       \* how doc was constructed: "parsed" or "example"
    out,          \* resolved records: None until the child has been finished
    warnings,     \* sequence of warn! events, oldest first
    done,         \* child overlays already consumed (moved into finish)
    rootFinishes  \* number of RpcConfig::finish calls made

vars == <<doc, cfg, base, protocol, origin, out, warnings, done, rootFinishes>>

---------------------------------------------------------------------------
(* Bounds of the model. *)

\* usize values of page sizes and limits are drawn from 1..MaxVal
MaxVal == 2
\* total number of unrecognized keys of a multi-section document
MaxUnknown == 3
\* cap on repeated RpcConfig::finish calls
MaxRootFinish == 2

---------------------------------------------------------------------------
(* Value domains. *)

Val == 1..MaxVal

\* Option<T>: None is the empty tuple, Some(v) the one-element tuple.
None == <<>>
Some(v) == <<v>>
Opt(S) == {None} \cup {Some(v) : v \in S}

\* Mutation of unwrap_or: the override is ignored
unwrap_or_baseline(o, d) == d

\* Option::unwrap_or
unwrap_or(o, d) == IF o = None THEN d ELSE o[1]

\* Keys a document may carry that match no declared field.  A toml::Table is
\* modelled by its key set: the values are only rendered, never inspected.
Keys == {"foo", "max_page_sizes"}
Table == SUBSET Keys

SuiAddresses == {"addr_A", "addr_B"}
ObjectIDs == {"id_R", "id_RR"}
InstanceIds == {"prod-1"}

ObjectsConfigs ==
    [max_multi_get_objects : Val, default_page_size : Val, max_page_size : Val]
TransactionsConfigs == [default_page_size : Val, max_page_size : Val]
NameServiceConfigs ==
    [package_address : SuiAddresses, registry_id : ObjectIDs,
     reverse_registry_id : ObjectIDs]
CoinsConfigs == [default_page_size : Val, max_page_size : Val]
Limits ==
    [max_type_argument_depth : Val, max_type_argument_width : Val,
     max_type_nodes : Val, max_move_value_depth : Val]
ProtocolConfigs ==
    [max_type_argument_depth : Val, max_generic_instantiation_length : Val,
     max_type_nodes : Val, max_move_value_depth : Val]

ObjectsLayers ==
    [max_multi_get_objects : Opt(Val), default_page_size : Opt(Val),
     max_page_size : Opt(Val), extra : Table]
TransactionsLayers ==
    [default_page_size : Opt(Val), max_page_size : Opt(Val), extra : Table]
NameServiceLayers ==
    [package_address : Opt(SuiAddresses), registry_id : Opt(ObjectIDs),
     reverse_registry_id : Opt(ObjectIDs), extra : Table]
CoinsLayers ==
    [default_page_size : Opt(Val), max_page_size : Opt(Val), extra : Table]
PackageResolverLayers ==
    [max_type_argument_depth : Val, max_type_argument_width : Val,
     max_type_nodes : Val, max_move_value_depth : Val, extra : Table]
BigtableConfigs == [instance_id : InstanceIds]

---------------------------------------------------------------------------
(* check_extra: the warnings one call emits. *)

\* Mutation of check_extra: the warning is dropped
check_extra_silent(pos, extra) == <<>>

\* Mutation of check_extra: the test of extra.len() is inverted
check_extra_inverted(pos, extra) ==
    IF extra # {}
    THEN <<[pos |-> pos,
            plural |-> IF Cardinality(extra) = 1 THEN "s" ELSE "",
            extra |-> extra]>>
    ELSE <<>>

check_extra(pos, extra) ==
    IF extra # {}
    THEN <<[pos |-> pos,
            plural |-> IF Cardinality(extra) # 1 THEN "s" ELSE "",
            extra |-> extra]>>
    ELSE <<>>

---------------------------------------------------------------------------
(* The finish methods: [ret |-> returned value, warned |-> warnings emitted] *)

\* Mutation of RpcConfig::finish: bigtable_config is not carried over
RpcConfig_finish_no_bigtable(self) ==
    [ret |-> [self EXCEPT !.extra = {}, !.bigtable_config = <<>>],
     warned |-> check_extra("top-level", self.extra)]

\* Mutation of RpcConfig::finish: the extras are cloned, not taken
RpcConfig_finish_clone(self) ==
    [ret |-> self, warned |-> check_extra("top-level", self.extra)]

RpcConfig_finish(self) ==
    [ret |-> [self EXCEPT !.extra = {}],
     warned |-> check_extra("top-level", self.extra)]

\* Mutation of ObjectsLayer::finish: max_page_size falls back to the
\* baseline's default_page_size
ObjectsLayer_finish_crossed(self, b) ==
    [ret |-> [max_multi_get_objects |->
                  unwrap_or(self.max_multi_get_objects, b.max_multi_get_objects),
              default_page_size |->
                  unwrap_or(self.default_page_size, b.default_page_size),
              max_page_size |->
                  unwrap_or(self.max_page_size, b.default_page_size)],
     warned |-> check_extra("objects", self.extra)]

ObjectsLayer_finish(self, b) ==
    [ret |-> [max_multi_get_objects |->
                  unwrap_or(self.max_multi_get_objects, b.max_multi_get_objects),
              default_page_size |->
                  unwrap_or(self.default_page_size, b.default_page_size),
              max_page_size |-> unwrap_or(self.max_page_size, b.max_page_size)],
     warned |-> check_extra("objects", self.extra)]

\* Mutation of TransactionsLayer::finish: the section is named "coins"
TransactionsLayer_finish_misnamed(self, b) ==
    [ret |-> [default_page_size |->
                  unwrap_or(self.default_page_size, b.default_page_size),
              max_page_size |-> unwrap_or(self.max_page_size, b.max_page_size)],
     warned |-> check_extra("coins", self.extra)]

TransactionsLayer_finish(self, b) ==
    [ret |-> [default_page_size |->
                  unwrap_or(self.default_page_size, b.default_page_size),
              max_page_size |-> unwrap_or(self.max_page_size, b.max_page_size)],
     warned |-> check_extra("transactions", self.extra)]

NameServiceLayer_finish(self, b) ==
    [ret |-> [package_address |->
                  unwrap_or(self.package_address, b.package_address),
              registry_id |-> unwrap_or(self.registry_id, b.registry_id),
              reverse_registry_id |->
                  unwrap_or(self.reverse_registry_id, b.reverse_registry_id)],
     warned |-> check_extra("name service", self.extra)]

CoinsLayer_finish(self, b) ==
    [ret |-> [default_page_size |->
                  unwrap_or(self.default_page_size, b.default_page_size),
              max_page_size |-> unwrap_or(self.max_page_size, b.max_page_size)],
     warned |-> check_extra("coins", self.extra)]

PackageResolverLayer_finish(self) ==
    [ret |-> [max_type_argument_depth |-> self.max_type_argument_depth,
              max_type_argument_width |-> self.max_type_argument_width,
              max_type_nodes |-> self.max_type_nodes,
              max_move_value_depth |-> self.max_move_value_depth],
     warned |-> check_extra("package-resolver", self.extra)]

---------------------------------------------------------------------------
(* Defaults and conversions. *)

\* `as usize` of the catalog's u32/u64 getters: value preserving on the
\* 64-bit targets the indexer is built for.
as_usize(x) == x

\* Mutation of PackageResolverLayer::default: the width is read from
\* max_type_argument_depth
PackageResolverLayer_default_depth(config) ==
    [max_type_argument_depth |-> as_usize(config.max_type_argument_depth),
     max_type_argument_width |-> as_usize(config.max_type_argument_depth),
     max_type_nodes |-> as_usize(config.max_type_nodes),
     max_move_value_depth |-> as_usize(config.max_move_value_depth),
     extra |-> {}]

PackageResolverLayer_default(config) ==
    [max_type_argument_depth |-> as_usize(config.max_type_argument_depth),
     max_type_argument_width |->
         as_usize(config.max_generic_instantiation_length),
     max_type_nodes |-> as_usize(config.max_type_nodes),
     max_move_value_depth |-> as_usize(config.max_move_value_depth),
     extra |-> {}]

\* #[derive(Default)] of the four optional layers
ObjectsLayer_default ==
    [max_multi_get_objects |-> None, default_page_size |-> None,
     max_page_size |-> None, extra |-> {}]
TransactionsLayer_default ==
    [default_page_size |-> None, max_page_size |-> None, extra |-> {}]
NameServiceLayer_default ==
    [package_address |-> None, registry_id |-> None,
     reverse_registry_id |-> None, extra |-> {}]
CoinsLayer_default ==
    [default_page_size |-> None, max_page_size |-> None, extra |-> {}]

\* Mutation of From<ObjectsConfig>: the two page sizes are exchanged
ObjectsLayer_from_swapped(config) ==
    [max_multi_get_objects |-> <<config.max_multi_get_objects>>,
     default_page_size |-> <<config.max_page_size>>,
     max_page_size |-> <<config.default_page_size>>,
     extra |-> {}]

ObjectsLayer_from(config) ==
    [max_multi_get_objects |-> Some(config.max_multi_get_objects),
     default_page_size |-> Some(config.default_page_size),
     max_page_size |-> Some(config.max_page_size),
     extra |-> {}]

TransactionsLayer_from(config) ==
    [default_page_size |-> Some(config.default_page_size),
     max_page_size |-> Some(config.max_page_size),
     extra |-> {}]

NameServiceLayer_from(config) ==
    [package_address |-> Some(config.package_address),
     registry_id |-> Some(config.registry_id),
     reverse_registry_id |-> Some(config.reverse_registry_id),
     extra |-> {}]

\* Mutation of From<CoinsConfig>: max_page_size copies default_page_size
CoinsLayer_from_copied(config) ==
    [default_page_size |-> <<config.default_page_size>>,
     max_page_size |-> <<config.default_page_size>>,
     extra |-> {}]

CoinsLayer_from(config) ==
    [default_page_size |-> Some(config.default_page_size),
     max_page_size |-> Some(config.max_page_size),
     extra |-> {}]

\* RpcConfig::example(); d holds the four subsystems' Default records and
\* p the protocol catalog record.
RpcConfig_example(d, p) ==
    [objects |-> ObjectsLayer_from(d.objects),
     transactions |-> TransactionsLayer_from(d.transactions),
     name_service |-> NameServiceLayer_from(d.name_service),
     coins |-> CoinsLayer_from(d.coins),
     bigtable_config |-> None,
     package_resolver |-> PackageResolverLayer_default(p),
     extra |-> {}]

\* #[derive(Default)] of RpcConfig: the document with no table at all
RpcConfig_default(p) ==
    [objects |-> ObjectsLayer_default,
     transactions |-> TransactionsLayer_default,
     name_service |-> NameServiceLayer_default,
     coins |-> CoinsLayer_default,
     bigtable_config |-> None,
     package_resolver |-> PackageResolverLayer_default(p),
     extra |-> {}]

---------------------------------------------------------------------------
(* Initial states: the documents and baselines the host starts from. *)

Backed == {"objects", "transactions", "name_service", "coins"}
Children == Backed \cup {"package_resolver"}
Sections == Children \cup {"top"}

\* Section name each finisher passes to check_extra
PosOf(s) ==
    CASE s = "top" -> "top-level"
      [] s = "objects" -> "objects"
      [] s = "transactions" -> "transactions"
      [] s = "name_service" -> "name service"
      [] s = "coins" -> "coins"
      [] s = "package_resolver" -> "package-resolver"

\* Baselines and catalog record used for the sections a scenario leaves alone
FixedBase ==
    [objects |-> [max_multi_get_objects |-> 1, default_page_size |-> 1,
                  max_page_size |-> 1],
     transactions |-> [default_page_size |-> 1, max_page_size |-> 1],
     name_service |-> [package_address |-> "addr_A", registry_id |-> "id_R",
                       reverse_registry_id |-> "id_RR"],
     coins |-> [default_page_size |-> 1, max_page_size |-> 1]]
FixedProtocol ==
    [max_type_argument_depth |-> 1, max_generic_instantiation_length |-> 1,
     max_type_nodes |-> 1, max_move_value_depth |-> 1]

\* Baselines that differ from FixedBase in one subsystem
Bases ==
    {[FixedBase EXCEPT !.objects = b] : b \in ObjectsConfigs}
    \cup {[FixedBase EXCEPT !.transactions = b] : b \in TransactionsConfigs}
    \cup {[FixedBase EXCEPT !.name_service = b] : b \in NameServiceConfigs}
    \cup {[FixedBase EXCEPT !.coins = b] : b \in CoinsConfigs}

\* Extras of the section s of a root overlay
ExtraOf(c, s) == IF s = "top" THEN c.extra ELSE c[s].extra

\* The root overlay c with the extras bucket of every section set from e
WithExtras(c, e) ==
    [objects |-> [c.objects EXCEPT !.extra = e["objects"]],
     transactions |-> [c.transactions EXCEPT !.extra = e["transactions"]],
     name_service |-> [c.name_service EXCEPT !.extra = e["name_service"]],
     coins |-> [c.coins EXCEPT !.extra = e["coins"]],
     bigtable_config |-> c.bigtable_config,
     package_resolver |->
         [c.package_resolver EXCEPT !.extra = e["package_resolver"]],
     extra |-> e["top"]]

RECURSIVE SumCard(_, _)
SumCard(e, S) ==
    IF S = {} THEN 0
    ELSE LET s == CHOOSE x \in S : TRUE
         IN Cardinality(e[s]) + SumCard(e, S \ {s})

\* Assignments of extras to the six sections, MaxUnknown keys in total at most
ExtraPlacements ==
    {e \in [Sections -> Table] : SumCard(e, Sections) <= MaxUnknown}

Start ==
    /\ cfg = doc
    /\ out = [s \in Children |-> None]
    /\ warnings = <<>>
    /\ done = {}
    /\ rootFinishes = 0

\* A parsed document holding one table of a baseline-backed subsystem: any
\* fields against any baseline of that subsystem, and any fields with any
\* unrecognized keys against the fixed baseline
InitOneTable ==
    /\ origin = "parsed"
    /\ protocol = FixedProtocol
    /\ \/ \E o \in ObjectsLayers, b \in ObjectsConfigs :
            /\ o.extra = {} \/ b = FixedBase.objects
            /\ doc = [RpcConfig_default(protocol) EXCEPT !.objects = o]
            /\ base = [FixedBase EXCEPT !.objects = b]
       \/ \E o \in TransactionsLayers, b \in TransactionsConfigs :
            /\ o.extra = {} \/ b = FixedBase.transactions
            /\ doc = [RpcConfig_default(protocol) EXCEPT !.transactions = o]
            /\ base = [FixedBase EXCEPT !.transactions = b]
       \/ \E o \in NameServiceLayers, b \in NameServiceConfigs :
            /\ o.extra = {} \/ b = FixedBase.name_service
            /\ doc = [RpcConfig_default(protocol) EXCEPT !.name_service = o]
            /\ base = [FixedBase EXCEPT !.name_service = b]
       \/ \E o \in CoinsLayers, b \in CoinsConfigs :
            /\ o.extra = {} \/ b = FixedBase.coins
            /\ doc = [RpcConfig_default(protocol) EXCEPT !.coins = o]
            /\ base = [FixedBase EXCEPT !.coins = b]

\* A parsed document holding only a package-resolver table, or no table at
\* all under any catalog record
InitPackageResolver ==
    /\ origin = "parsed"
    /\ base = FixedBase
    /\ \/ /\ protocol = FixedProtocol
          /\ \E l \in PackageResolverLayers :
                doc = [RpcConfig_default(protocol) EXCEPT !.package_resolver = l]
       \/ /\ protocol \in ProtocolConfigs
          /\ doc = RpcConfig_default(protocol)

\* A parsed document with unrecognized keys in any of its sections, with or
\* without a bigtable table, every declared field left out or every one set
InitExtras ==
    /\ origin = "parsed"
    /\ protocol = FixedProtocol
    /\ base = FixedBase
    /\ \E e \in ExtraPlacements, bt \in Opt(BigtableConfigs),
          c \in {RpcConfig_default(protocol),
                 RpcConfig_example(FixedBase, protocol)} :
          doc = WithExtras([c EXCEPT !.bigtable_config = bt], e)

\* RpcConfig::example(), the baselines being the subsystems' Default records
InitExample ==
    /\ origin = "example"
    /\ protocol = FixedProtocol
    /\ base \in Bases
    /\ doc = RpcConfig_example(base, protocol)

\* Start-up from a whole document: unrecognized keys anywhere, a
\* package-resolver table, any catalog record, or the example
Init ==
    /\ \/ InitExtras
       \/ InitPackageResolver
       \/ InitExample
    /\ Start

\* Start-up from a document with one baseline-backed table
InitMerge == InitOneTable /\ Start

---------------------------------------------------------------------------
(* Actions: one per finish method. *)

\* RpcConfig::finish(self): self must still be whole (no child moved out)
FinishRoot ==
    /\ done = {}
    /\ rootFinishes < MaxRootFinish
    /\ LET r == RpcConfig_finish(cfg)
       IN /\ cfg' = r.ret
          /\ warnings' = warnings \o r.warned
    /\ rootFinishes' = rootFinishes + 1
    /\ UNCHANGED <<doc, base, protocol, origin, out, done>>

\* The child overlay s is moved into its finisher, which returns r
Consume(s, r) ==
    /\ s \notin done
    /\ out' = [out EXCEPT ![s] = Some(r.ret)]
    /\ warnings' = warnings \o r.warned
    /\ done' = done \cup {s}
    /\ UNCHANGED <<doc, cfg, base, protocol, origin, rootFinishes>>

FinishObjects ==
    Consume("objects", ObjectsLayer_finish(cfg.objects, base.objects))

FinishTransactions ==
    Consume("transactions",
            TransactionsLayer_finish(cfg.transactions, base.transactions))

FinishNameService ==
    Consume("name_service",
            NameServiceLayer_finish(cfg.name_service, base.name_service))

FinishCoins ==
    Consume("coins", CoinsLayer_finish(cfg.coins, base.coins))

FinishPackageResolver ==
    Consume("package_resolver",
            PackageResolverLayer_finish(cfg.package_resolver))

Next ==
    \/ FinishRoot
    \/ FinishObjects
    \/ FinishTransactions
    \/ FinishNameService
    \/ FinishCoins
    \/ FinishPackageResolver

Spec == Init /\ [][Next]_vars

SpecMerge == InitMerge /\ [][Next]_vars

---------------------------------------------------------------------------
(* Vocabulary of the properties. *)

\* Declared fields of each baseline-backed subsystem
FieldsOf(s) ==
    CASE s = "objects" ->
             {"max_multi_get_objects", "default_page_size", "max_page_size"}
      [] s = "transactions" -> {"default_page_size", "max_page_size"}
      [] s = "name_service" ->
             {"package_address", "registry_id", "reverse_registry_id"}
      [] s = "coins" -> {"default_page_size", "max_page_size"}

\* Type of the field g of subsystem s
TypeOf(s, g) ==
    IF s = "name_service"
    THEN IF g = "package_address" THEN SuiAddresses ELSE ObjectIDs
    ELSE Val

\* Values of all fields of subsystem s
ValuesOf(s) ==
    IF s = "name_service" THEN SuiAddresses \cup ObjectIDs ELSE Val

\* The finisher of the baseline-backed subsystem s
FinishOf(s, o, b) ==
    CASE s = "objects" -> ObjectsLayer_finish(o, b)
      [] s = "transactions" -> TransactionsLayer_finish(o, b)
      [] s = "name_service" -> NameServiceLayer_finish(o, b)
      [] s = "coins" -> CoinsLayer_finish(o, b)

\* Number of warnings emitted so far that name the section pos
CountPos(pos) ==
    Cardinality({i \in 1..Len(warnings) : warnings[i].pos = pos})

\* Sections of the loaded document that hold unrecognized keys
Unrecognized == {s \in Sections : ExtraOf(doc, s) # {}}

AllFinished == done = Children /\ rootFinishes >= 1

---------------------------------------------------------------------------
\* C1: Inheritance.  For each baseline-backed finisher that has run and every
\* declared field f, the resolved f is v when the overlay's f is Some(v) and
\* the baseline's f when the overlay's f is None.
C1_Inheritance ==
    \A s \in Backed \cap done :
        \A f \in FieldsOf(s) :
            /\ cfg[s][f] = None => out[s][1][f] = base[s][f]
            /\ \A v \in TypeOf(s, f) :
                   cfg[s][f] = Some(v) => out[s][1][f] = v

\* Scenario 2 of the specification: one field overridden, two inherited
C1_Witness ==
    /\ "objects" \in done
    /\ cfg.objects.max_multi_get_objects = None
    /\ cfg.objects.default_page_size = None
    /\ cfg.objects.max_page_size = Some(2)
    /\ base.objects = [max_multi_get_objects |-> 1, default_page_size |-> 1,
                       max_page_size |-> 1]
    /\ out.objects = Some([max_multi_get_objects |-> 1,
                           default_page_size |-> 1, max_page_size |-> 2])

\* C2: Extras warn, never fail.  Every invocation of one of the six
\* finishers returns its result; when the bucket it was given is non-empty
\* it appends exactly one warning, carrying the finisher's section name and
\* the whole bucket; when the bucket is empty it appends nothing.
C2_Invoked(s) ==
    IF s = "top" THEN rootFinishes' = rootFinishes + 1
    ELSE s \in done' /\ s \notin done

C2_Returned(s) ==
    IF s = "top" THEN DOMAIN cfg' = DOMAIN cfg ELSE out'[s] # None

C2_ExtrasWarnNeverFail ==
    [][\A s \in Sections :
          C2_Invoked(s) =>
              /\ C2_Returned(s)
              /\ ExtraOf(cfg, s) = {} => warnings' = warnings
              /\ ExtraOf(cfg, s) # {} =>
                     /\ Len(warnings') = Len(warnings) + 1
                     /\ SubSeq(warnings', 1, Len(warnings)) = warnings
                     /\ warnings'[Len(warnings')].pos = PosOf(s)
                     /\ warnings'[Len(warnings')].extra = ExtraOf(cfg, s)]_vars

\* All six finishers have run on a document with three unrecognized keys in
\* three sections, and a section with an empty bucket stayed silent
C2_Witness ==
    /\ AllFinished
    /\ Cardinality(Unrecognized) = 3
    /\ "top" \in Unrecognized
    /\ "package_resolver" \in Unrecognized
    /\ "coins" \notin Unrecognized
    /\ Len(warnings) = 3
    /\ CountPos("coins") = 0

\* C3: Left inverse.  When the overlay given to a baseline-backed finisher
\* is the From conversion of a resolved record r, the finisher returns
\* exactly r, whatever the baseline, and emits no warning.
C3_LeftInverse ==
    /\ "objects" \in done =>
           \A r \in ObjectsConfigs :
               cfg.objects = ObjectsLayer_from(r) =>
                   out.objects = Some(r) /\ CountPos("objects") = 0
    /\ "transactions" \in done =>
           \A r \in TransactionsConfigs :
               cfg.transactions = TransactionsLayer_from(r) =>
                   out.transactions = Some(r) /\ CountPos("transactions") = 0
    /\ "name_service" \in done =>
           \A r \in NameServiceConfigs :
               cfg.name_service = NameServiceLayer_from(r) =>
                   out.name_service = Some(r) /\ CountPos("name service") = 0
    /\ "coins" \in done =>
           \A r \in CoinsConfigs :
               cfg.coins = CoinsLayer_from(r) =>
                   out.coins = Some(r) /\ CountPos("coins") = 0

\* A lifted record merged onto a baseline that differs from it in every field
C3_Witness ==
    /\ "name_service" \in done
    /\ \E r \in NameServiceConfigs :
           /\ cfg.name_service = NameServiceLayer_from(r)
           /\ \A f \in FieldsOf("name_service") : base.name_service[f] # r[f]
           /\ out.name_service = Some(r)

\* C4: Example round-trip.  Starting from RpcConfig::example() with the
\* subsystems' default records as baselines, no step emits a warning,
\* bigtable_config stays absent, and every baseline-backed child resolves
\* to its baseline.
C4_ExampleRoundTrip ==
    origin = "example" =>
        /\ warnings = <<>>
        /\ cfg.bigtable_config = None
        /\ \A s \in Backed \cap done : out[s] = Some(base[s])

\* The example was finished completely, over defaults that are not uniform
C4_Witness ==
    /\ origin = "example"
    /\ AllFinished
    /\ base.coins.default_page_size # base.coins.max_page_size
    /\ base.coins # base.transactions

\* C5: Root finisher frame.  After RpcConfig::finish the value held has every
\* child overlay (fields and extras) and bigtable_config exactly as loaded.
C5_RootFrame ==
    rootFinishes >= 1 =>
        /\ \A s \in Children : cfg[s] = doc[s]
        /\ cfg.bigtable_config = doc.bigtable_config

\* Root finished on a document with top-level and child extras, child
\* fields set and the bigtable table present
C5_Witness ==
    /\ rootFinishes >= 1
    /\ doc.extra # {}
    /\ doc.objects.extra # {}
    /\ doc.objects.max_page_size # None
    /\ doc.bigtable_config = Some([instance_id |-> "prod-1"])
    /\ cfg.bigtable_config = Some([instance_id |-> "prod-1"])
    /\ cfg.objects.extra = doc.objects.extra

---------------------------------------------------------------------------
(* Field independence compares the invocation that happened with every     *)
(* other invocation that agrees with it on one field.                      *)

\* Overlays of subsystem s that agree with o on f and are arbitrary in every
\* other field and in the extras bucket
OverlayVariants(s, o, f) ==
    {[g \in DOMAIN o |->
         IF g = f THEN o[f] ELSE IF g = "extra" THEN e ELSE x[g]] :
        x \in {y \in [FieldsOf(s) \ {f} -> Opt(ValuesOf(s))] :
                  \A g \in FieldsOf(s) \ {f} : y[g] \in Opt(TypeOf(s, g))},
        e \in Table}

\* Baselines of subsystem s that agree with b on f and are arbitrary elsewhere
BaseVariants(s, b, f) ==
    {[g \in DOMAIN b |-> IF g = f THEN b[f] ELSE x[g]] :
        x \in {y \in [FieldsOf(s) \ {f} -> ValuesOf(s)] :
                  \A g \in FieldsOf(s) \ {f} : y[g] \in TypeOf(s, g)}}

\* C6: Field independence.  Right after the finisher of a baseline-backed
\* subsystem has run, every other invocation whose overlay and baseline
\* agree with it on a field f, and differ arbitrarily in the other fields
\* and in the extras, resolves f to the same value.
C6_FieldIndependence ==
    \A s \in Backed :
        (done = {s} /\ rootFinishes = 0) =>
            \A f \in FieldsOf(s) :
                \A o2 \in OverlayVariants(s, cfg[s], f) :
                    \A b2 \in BaseVariants(s, base[s], f) :
                        FinishOf(s, o2, b2).ret[f] = out[s][1][f]

\* An invocation that mixes an overridden field with inherited ones and
\* carries extras, so that its variants differ from it in all of them
C6_Witness ==
    /\ done = {"objects"}
    /\ rootFinishes = 0
    /\ cfg.objects.max_multi_get_objects = Some(2)
    /\ cfg.objects.default_page_size = None
    /\ cfg.objects.max_page_size = None
    /\ base.objects.default_page_size # base.objects.max_page_size
    /\ Cardinality(OverlayVariants("objects", cfg.objects, "max_page_size")) > 1
    /\ Cardinality(BaseVariants("objects", base.objects, "max_page_size")) > 1

\* C7: Package-resolver defaults.  The default overlay has empty extras and
\* takes its four fields from the catalog record (the width from
\* max_generic_instantiation_length); the finisher copies the overlay's four
\* fields; finishing the default overlay yields the catalog values and emits
\* no warning.
C7_CatalogLimits ==
    [max_type_argument_depth |-> protocol.max_type_argument_depth,
     max_type_argument_width |-> protocol.max_generic_instantiation_length,
     max_type_nodes |-> protocol.max_type_nodes,
     max_move_value_depth |-> protocol.max_move_value_depth]

C7_PackageResolverDefaults ==
    /\ PackageResolverLayer_default(protocol).extra = {}
    /\ \A f \in DOMAIN C7_CatalogLimits :
           PackageResolverLayer_default(protocol)[f] = C7_CatalogLimits[f]
    /\ "package_resolver" \in done =>
           /\ DOMAIN out.package_resolver[1] = DOMAIN C7_CatalogLimits
           /\ \A f \in DOMAIN C7_CatalogLimits :
                  out.package_resolver[1][f] = cfg.package_resolver[f]
           /\ cfg.package_resolver = PackageResolverLayer_default(protocol) =>
                  /\ out.package_resolver = Some(C7_CatalogLimits)
                  /\ CountPos("package-resolver") = 0

\* The default overlay finished under a catalog record whose four values
\* are not all equal
C7_Witness ==
    /\ "package_resolver" \in done
    /\ cfg.package_resolver = PackageResolverLayer_default(protocol)
    /\ protocol.max_type_argument_depth # protocol.max_generic_instantiation_length
    /\ protocol.max_type_nodes # protocol.max_move_value_depth
    /\ out.package_resolver = Some(C7_CatalogLimits)

\* C8: Grammatical number.  Every warning emitted is about a non-empty
\* bucket, says "field" exactly when the bucket holds one key and "fields"
\* exactly when it holds two or more.
C8_GrammaticalNumber ==
    \A i \in 1..Len(warnings) :
        LET n == Cardinality(warnings[i].extra)
        IN /\ n # 0
           /\ warnings[i].plural \in {"", "s"}
           /\ warnings[i].plural = "" <=> n = 1
           /\ warnings[i].plural = "s" <=> n >= 2

\* Scenario 4 of the specification next to a singular warning
C8_Witness ==
    /\ \E i \in 1..Len(warnings) :
           /\ warnings[i].pos = "objects"
           /\ warnings[i].extra = {"max_page_sizes", "foo"}
           /\ warnings[i].plural = "s"
    /\ \E i \in 1..Len(warnings) :
           /\ Cardinality(warnings[i].extra) = 1
           /\ warnings[i].plural = ""

\* C9: Root extras are drained once.  After RpcConfig::finish the value held
\* has an empty top-level bucket; finishing it again returns an equal value
\* and emits nothing; however often the root was finished, at most one
\* warning names "top-level".
C9_RootDrainedOnce ==
    rootFinishes >= 1 =>
        /\ cfg.extra = {}
        /\ RpcConfig_finish(cfg) = [ret |-> cfg, warned |-> <<>>]
        /\ cfg = [doc EXCEPT !.extra = {}]
        /\ CountPos("top-level") <= 1

\* The root was finished twice on a document with top-level extras
C9_Witness ==
    /\ rootFinishes >= 2
    /\ doc.extra # {}
    /\ CountPos("top-level") = 1

\* C10: Whole start-up.  Once the root and then the five children have been
\* finished, the warnings are as many as the sections of the loaded document
\* with unrecognized keys, each such section being named by exactly one
\* warning and no other section by any.  A document holding nothing but
\* unrecognized top-level keys yields the single "top-level" warning and
\* resolved records equal to the baselines.
C10_WholeStartup ==
    AllFinished =>
        /\ Len(warnings) = Cardinality(Unrecognized)
        /\ \A s \in Sections :
               CountPos(PosOf(s)) = IF s \in Unrecognized THEN 1 ELSE 0
        /\ (doc.extra # {} /\ [doc EXCEPT !.extra = {}] = RpcConfig_default(protocol)) =>
               /\ Len(warnings) = 1
               /\ warnings[1].pos = "top-level"
               /\ warnings[1].extra = doc.extra
               /\ \A s \in Backed : out[s] = Some(base[s])
               /\ cfg.bigtable_config = None

\* Scenario 3 of the specification, finished completely
C10_Witness ==
    /\ AllFinished
    /\ Cardinality(doc.extra) = 1
    /\ [doc EXCEPT !.extra = {}] = RpcConfig_default(protocol)
    /\ warnings = <<[pos |-> "top-level", plural |-> "", extra |-> doc.extra]>>
    /\ \A s \in Backed : out[s] = Some(base[s])

\* Start-up of a document with unrecognized keys in the root and in two
\* children, each of the three sections warned about once
C10_WitnessMany ==
    /\ AllFinished
    /\ Unrecognized = {"top", "objects", "name_service"}
    /\ Len(warnings) = 3

====
